---- MODULE Spec2Model ----
(***************************************************************************)
(* Model of src/src/components/PiramideOlfativaUpdater.tsx: the olfactory  *)
(* pyramid editor (paste HTML, edit three tiers of notes, regenerate the   *)
(* HTML and copy it).                                                      *)
(*                                                                         *)
(* Strings are sequences of lexemes.  Everything the user types is one     *)
(* lexeme per character; the characters that HTML and the splice pattern   *)
(* give a meaning to (< > / = " ' and whitespace) are always lexemes of    *)
(* their own; only the fixed words of the templates and of the sample      *)
(* documents (tag names, attribute names, style values, titles, the asset  *)
(* base path) are lexemes of several characters.  String concatenation is  *)
(* \o and string equality is sequence equality.                            *)
(***************************************************************************)
EXTENDS Integers, Sequences, FiniteSets, TLC

VARIABLES
    htmlInput,      \* useState('')            line 16
    pyramid,        \* useState<PyramidData>   line 17
    originalHtml,   \* useState('')            line 22
    pyramidLoaded,  \* useState(false)         line 23
    generatedHtml,  \* useState('')            line 24
    copied,         \* useState(false)         line 25
    timers,         \* pending setTimeout callbacks of line 138: time left of each
    sinceCopy,      \* time since the most recent copyToClipboard, counted up to the delay
    notice,         \* the handler that ran last raised the alert() of line 85
    clipboard,      \* what navigator.clipboard.writeText last received (line 136)
    last,           \* the handler that ran last, with its arguments
    probe           \* a pure function applied on its own: argument and results

vars == <<htmlInput, pyramid, originalHtml, pyramidLoaded, generatedHtml,
          copied, timers, sinceCopy, notice, clipboard, last, probe>>

(***************************************************************************)
(* Bounds of the model.                                                    *)
(***************************************************************************)
MaxNotes == 3        \* addNote is offered while the pyramid holds fewer notes
MaxLen == 3          \* length of the strings the normalizer is tried on

Levels == {"top", "heart", "base"}

EmptyStr == << >>

(***************************************************************************)
(* Sequence helpers.                                                       *)
(***************************************************************************)
\* the concatenation of the strings ss[lo], ..., ss[hi]
RECURSIVE ConcatRange(_, _, _)
ConcatRange(ss, lo, hi) ==
    IF lo > hi THEN << >>
    ELSE IF lo = hi THEN ss[lo]
    ELSE ConcatRange(ss, lo, (lo + hi) \div 2) \o ConcatRange(ss, (lo + hi) \div 2 + 1, hi)

RECURSIVE JoinWith(_, _)
JoinWith(ss, sep) ==
    IF ss = << >> THEN << >>
    ELSE IF Len(ss) = 1 THEN ss[1]
    ELSE ss[1] \o sep \o JoinWith(Tail(ss), sep)

\* the k-th smallest element of a finite set of numbers
KthOf(S, k) == CHOOSE x \in S : Cardinality({y \in S : y < x}) = k - 1

\* a finite set of numbers in increasing order
SortedSeq(S) == [k \in 1..Cardinality(S) |-> KthOf(S, k)]

\* the elements of s at the indices Keep accepts, in order
SelectIdx(s, Keep(_, _)) ==
    LET kept == {i \in 1..Len(s) : Keep(s[i], i)}
    IN  [k \in 1..Cardinality(kept) |-> s[KthOf(kept, k)]]

StringsUpTo(A, n) == UNION {[1..k -> A] : k \in 0..n}

(***************************************************************************)
(* Characters.                                                             *)
(***************************************************************************)
WhitespaceChars == {" ", "\t", "\n", "\r", "\f"}

AsciiLower == {"a","b","c","d","e","f","g","h","i","j","k","l","m",
               "n","o","p","q","r","s","t","u","v","w","x","y","z"}
Digits == {"0","1","2","3","4","5","6","7","8","9"}

UpperChars == <<"A","B","C","D","E","F","G","H","I","J","K","L","M",
                "N","O","P","Q","R","S","T","U","V","W","X","Y","Z",
                "Á","À","Ã","Â","Ä","É","È","Ê","Ë","Í","Ì","Î","Ï",
                "Ó","Ò","Õ","Ô","Ö","Ú","Ù","Û","Ü","Ç","Ñ">>
LowerChars == <<"a","b","c","d","e","f","g","h","i","j","k","l","m",
                "n","o","p","q","r","s","t","u","v","w","x","y","z",
                "á","à","ã","â","ä","é","è","ê","ë","í","ì","î","ï",
                "ó","ò","õ","ô","ö","ú","ù","û","ü","ç","ñ">>

\* String.prototype.toLowerCase, one character at a time (line 38)
toLowerCase(c) ==
    IF \E i \in 1..Len(UpperChars) : UpperChars[i] = c
    THEN LowerChars[CHOOSE i \in 1..Len(UpperChars) : UpperChars[i] = c]
    ELSE c

\* the accentsMap object literal (lines 28-35)
accentsMap ==
    [c \in {"á","à","ã","â","ä","é","è","ê","ë","í","ì","î","ï",
            "ó","ò","õ","ô","ö","ú","ù","û","ü","ç","ñ"} |->
        CASE c \in {"á","à","ã","â","ä"} -> "a"
          [] c \in {"é","è","ê","ë"} -> "e"
          [] c \in {"í","ì","î","ï"} -> "i"
          [] c \in {"ó","ò","õ","ô","ö"} -> "o"
          [] c \in {"ú","ù","û","ü"} -> "u"
          [] c = "ç" -> "c"
          [] c = "ñ" -> "n"]

\* .map(char => accentsMap[char] || char) (line 40)
foldAccent(c) == IF c \in DOMAIN accentsMap THEN accentsMap[c] ELSE c

\* .replace(/\s+/g, '-') (line 42): each maximal run of whitespace becomes one hyphen
replaceWhitespace(s) ==
    SelectIdx([i \in 1..Len(s) |-> IF s[i] \in WhitespaceChars THEN "-" ELSE s[i]],
              LAMBDA c, i : ~(s[i] \in WhitespaceChars /\ i > 1 /\ s[i - 1] \in WhitespaceChars))

\* .replace(/[^a-z0-9-]/g, '') (line 43)
MutStripKeepsAll(s) == s

stripNonSlug(s) ==
    SelectIdx(s, LAMBDA c, i : c \in AsciiLower \cup Digits \cup {"-"})

\* normalizeNoteName (lines 27-44)
MutNormalizeNoLower(name) ==
    stripNonSlug(replaceWhitespace([i \in 1..Len(name) |-> foldAccent(name[i])]))

normalizeNoteName(name) ==
    stripNonSlug(replaceWhitespace(
        [i \in 1..Len(name) |-> foldAccent(toLowerCase(name[i]))]))

(***************************************************************************)
(* generatePyramidHTML (lines 95-118).  The template literals, lexeme by   *)
(* lexeme.                                                                 *)
(***************************************************************************)
ContainerId == "section-piramide-olfativa"
TitleTop == "Notas de Topo"
TitleHeart == "Notas de Coração"
TitleBase == "Notas de Base"

NoteIndent == <<"\n", "\t", "\t", "\t">>

\* generateNoteHTML (lines 96-98)
generateNoteHTML(note) ==
    NoteIndent
    \o <<"<", "td", " ", "style", "=", "\"", "text-align:center; padding:0 8px;", "\"", ">">>
    \o <<"<", "img", " ", "alt", "=", "\"">> \o note.name
    \o <<"\"", " ", "src", "=", "\"">> \o note.imageUrl
    \o <<"\"", " ", "style", "=", "\"", "height:70px;", "\"", " ", "/", ">">>
    \o <<"<", "br", " ", "/", ">">>
    \o NoteIndent
    \o <<"<", "span", " ", "style", "=", "\"", "font-size:14px;", "\"", ">">> \o note.name
    \o <<"<", "/", "span", ">", "<", "/", "td", ">">>

\* generateSectionHTML (lines 100-111)
generateSectionHTML(title, notes) ==
    <<"\n", "<", "div", " ", "style", "=", "\"", "text-align:center; margin-bottom:32px;", "\"", ">", "\n">>
    \o <<"<", "h3", " ", "style", "=", "\"", "margin:0 0 8px 0;", "\"", ">", title, "<", "/", "h3", ">", "\n", "\n">>
    \o <<"<", "table", " ", "style", "=", "\"", "margin:0 auto; border-collapse:collapse;", "\"", ">", "\n">>
    \o <<"\t", "<", "tbody", ">", "\n", "\t", "\t", "<", "tr", ">", "\n", "\t", "\t", "\t">>
    \o JoinWith([i \in 1..Len(notes) |-> generateNoteHTML(notes[i])], NoteIndent)
    \o <<"\n", "\t", "\t", "<", "/", "tr", ">", "\n", "\t", "<", "/", "tbody", ">", "\n">>
    \o <<"<", "/", "table", ">", "\n", "<", "/", "div", ">">>

\* generatePyramidHTML (lines 113-117), of the pyramid p
MutGeneratePyramidHTMLSwapsTiers(p) ==
    <<"<", "section", " ", "id", "=", "\"", ContainerId, "\"", ">", "\n">>
    \o generateSectionHTML(TitleTop, p.top) \o <<"\n">>
    \o generateSectionHTML(TitleHeart, p.base) \o <<"\n">>
    \o generateSectionHTML(TitleBase, p.heart) \o <<"\n">>
    \o <<"<", "/", "section", ">">>

generatePyramidHTML(p) ==
    <<"<", "section", " ", "id", "=", "\"", ContainerId, "\"", ">", "\n">>
    \o generateSectionHTML(TitleTop, p.top) \o <<"\n">>
    \o generateSectionHTML(TitleHeart, p.heart) \o <<"\n">>
    \o generateSectionHTML(TitleBase, p.base) \o <<"\n">>
    \o <<"<", "/", "section", ">">>

(***************************************************************************)
(* DOMParser.parseFromString(html, 'text/html') (lines 47-48), as far as   *)
(* the extractor reads its result.  HtmlTokens follows the HTML tokenizer  *)
(* on the lexemes: data, tag name, attribute name and value states, with   *)
(* double-quoted, single-quoted and unquoted values, and the first of two  *)
(* attributes of one name winning.  Not modelled: character references,    *)
(* comments and doctypes, raw-text elements, upper-case tag names, and the *)
(* tree builder's implied tags (the sample documents close what they       *)
(* open).                                                                  *)
(***************************************************************************)
NonAlphaStart ==
    WhitespaceChars \cup Digits
    \cup {"<", ">", "/", "=", "\"", "'", "$", "&", "-", "_", ".", "!", "?", ".webp", ""}

\* an ASCII letter follows: the lexeme opens a tag name
AlphaStart(l) == l \notin NonAlphaStart

VoidElements == {<<"img">>, <<"br">>}

TokInit ==
    [mode |-> "data", out |-> << >>, kind |-> "start", name |-> << >>,
     an |-> << >>, av |-> << >>, id |-> << >>, src |-> << >>]

\* the attribute being read is complete: keep id and src, the first of each
TokCommit(st, val) ==
    [st EXCEPT !.id = IF st.kind = "start" /\ st.an = <<"id">> /\ st.id = << >>
                      THEN <<val>> ELSE @,
               !.src = IF st.kind = "start" /\ st.an = <<"src">> /\ st.src = << >>
                       THEN <<val>> ELSE @,
               !.an = << >>, !.av = << >>]

\* ">" ends the tag: emit its token
TokEmit(st) ==
    [st EXCEPT !.mode = "data",
               !.out = Append(@, IF st.kind = "start"
                                 THEN [k |-> "start", name |-> st.name, id |-> st.id, src |-> st.src]
                                 ELSE [k |-> "end", name |-> st.name, id |-> << >>, src |-> << >>]),
               !.an = << >>, !.av = << >>]

TokText(st, l) ==
    [st EXCEPT !.out = Append(@, [k |-> "text", name |-> <<l>>, id |-> << >>, src |-> << >>])]

\* the before-attribute-name state, also entered by reconsuming a lexeme
TokBeforeAttr(st, l) ==
    CASE l \in WhitespaceChars -> [st EXCEPT !.mode = "beforeAttr"]
      [] l = "/" -> [st EXCEPT !.mode = "selfClosing"]
      [] l = ">" -> TokEmit(st)
      [] OTHER -> [st EXCEPT !.mode = "attrName", !.an = <<l>>, !.av = << >>]

\* one lexeme l, with the two lexemes after it
TokStep(st, l, n1, n2) ==
    CASE st.mode = "data" ->
           IF l = "<" /\ n1 = "/" /\ AlphaStart(n2)
           THEN [st EXCEPT !.mode = "endTagOpen"]
           ELSE IF l = "<" /\ AlphaStart(n1)
           THEN [st EXCEPT !.mode = "tagName", !.kind = "start", !.name = << >>,
                           !.id = << >>, !.src = << >>, !.an = << >>, !.av = << >>]
           ELSE TokText(st, l)
      [] st.mode = "endTagOpen" ->
           [st EXCEPT !.mode = "tagName", !.kind = "end", !.name = << >>,
                      !.id = << >>, !.src = << >>, !.an = << >>, !.av = << >>]
      [] st.mode = "tagName" ->
           CASE l \in WhitespaceChars -> [st EXCEPT !.mode = "beforeAttr"]
             [] l = "/" -> [st EXCEPT !.mode = "selfClosing"]
             [] l = ">" -> TokEmit(st)
             [] OTHER -> [st EXCEPT !.name = Append(@, l)]
      [] st.mode = "beforeAttr" -> TokBeforeAttr(st, l)
      [] st.mode = "attrName" ->
           CASE l \in WhitespaceChars -> [st EXCEPT !.mode = "afterAttrName"]
             [] l = "/" -> [TokCommit(st, << >>) EXCEPT !.mode = "selfClosing"]
             [] l = ">" -> TokEmit(TokCommit(st, << >>))
             [] l = "=" -> [st EXCEPT !.mode = "beforeValue"]
             [] OTHER -> [st EXCEPT !.an = Append(@, l)]
      [] st.mode = "afterAttrName" ->
           CASE l \in WhitespaceChars -> st
             [] l = "/" -> [TokCommit(st, << >>) EXCEPT !.mode = "selfClosing"]
             [] l = "=" -> [st EXCEPT !.mode = "beforeValue"]
             [] l = ">" -> TokEmit(TokCommit(st, << >>))
             [] OTHER -> [TokCommit(st, << >>) EXCEPT !.mode = "attrName", !.an = <<l>>]
      [] st.mode = "beforeValue" ->
           CASE l \in WhitespaceChars -> st
             [] l = "\"" -> [st EXCEPT !.mode = "valueDq"]
             [] l = "'" -> [st EXCEPT !.mode = "valueSq"]
             [] l = ">" -> TokEmit(TokCommit(st, << >>))
             [] OTHER -> [st EXCEPT !.mode = "valueUnq", !.av = <<l>>]
      [] st.mode = "valueDq" ->
           IF l = "\"" THEN [TokCommit(st, st.av) EXCEPT !.mode = "afterQuoted"]
           ELSE [st EXCEPT !.av = Append(@, l)]
      [] st.mode = "valueSq" ->
           IF l = "'" THEN [TokCommit(st, st.av) EXCEPT !.mode = "afterQuoted"]
           ELSE [st EXCEPT !.av = Append(@, l)]
      [] st.mode = "valueUnq" ->
           CASE l \in WhitespaceChars -> [TokCommit(st, st.av) EXCEPT !.mode = "beforeAttr"]
             [] l = ">" -> TokEmit(TokCommit(st, st.av))
             [] OTHER -> [st EXCEPT !.av = Append(@, l)]
      [] st.mode = "afterQuoted" -> TokBeforeAttr(st, l)
      [] st.mode = "selfClosing" -> TokBeforeAttr(st, l)

LexAt(d, i) == IF i <= Len(d) THEN d[i] ELSE ""

\* the tokenizer's state after the lexemes lo..hi of d, entered in state st
RECURSIVE TokRun(_, _, _, _)
TokRun(d, lo, hi, st) ==
    IF lo > hi THEN st
    ELSE IF lo = hi THEN TokStep(st, d[lo], LexAt(d, lo + 1), LexAt(d, lo + 2))
    ELSE LET mid == (lo + hi) \div 2
             left == TokRun(d, lo, mid, st)
         IN  IF left.mode = "halt" THEN left ELSE TokRun(d, mid + 1, hi, left)

\* the tokens of the document; a tag the input ends in is dropped
HtmlTokens(d) == TokRun(d, 1, Len(d), TokInit).out

(***************************************************************************)
(* The element tree, as far as the extractor's queries read it: for each   *)
(* start tag the element it is a child of and the token that closes it.    *)
(* An end tag closes the nearest open element of its name and every        *)
(* element opened inside it; an end tag with no open element is ignored;   *)
(* what is still open at the end of the input is closed there.             *)
(***************************************************************************)
MaxOf(S) == CHOOSE x \in S : \A y \in S : y <= x
MinOf(S) == CHOOSE x \in S : \A y \in S : x <= y

DomInit(n) ==
    [stack |-> << >>, parent |-> [i \in 1..n |-> 0], close |-> [i \in 1..n |-> n + 1]]

DomStep(toks, st, i) ==
    LET t == toks[i]
        top == IF st.stack = << >> THEN 0 ELSE st.stack[Len(st.stack)]
    IN  CASE t.k = "start" /\ t.name \in VoidElements ->
               [st EXCEPT !.parent[i] = top, !.close[i] = i]
          [] t.k = "start" /\ t.name \notin VoidElements ->
               [st EXCEPT !.parent[i] = top, !.stack = Append(@, i)]
          [] t.k = "end" ->
               LET open == {k \in 1..Len(st.stack) : toks[st.stack[k]].name = t.name}
               IN  IF open = {} THEN st
                   ELSE LET k == MaxOf(open)
                            popped == {st.stack[m] : m \in k..Len(st.stack)}
                        IN  [st EXCEPT !.stack = SubSeq(@, 1, k - 1),
                                       !.close = [j \in DOMAIN @ |->
                                                    IF j \in popped THEN i ELSE @[j]]]
          [] OTHER -> [st EXCEPT !.parent[i] = top]

RECURSIVE DomRun(_, _, _, _)
DomRun(toks, lo, hi, st) ==
    IF lo > hi THEN st
    ELSE IF lo = hi THEN DomStep(toks, st, lo)
    ELSE LET mid == (lo + hi) \div 2
             left == DomRun(toks, lo, mid, st)
         IN  IF left.stack = <<0>> THEN left ELSE DomRun(toks, mid + 1, hi, left)

DomOf(toks) ==
    LET st == DomRun(toks, 1, Len(toks), DomInit(Len(toks)))
    IN  [toks |-> toks, parent |-> st.parent, close |-> st.close]

\* the elements of a given tag name inside element e
Descendants(dom, e, tag) ==
    {i \in (e + 1)..(dom.close[e] - 1) :
        dom.toks[i].k = "start" /\ dom.toks[i].name = <<tag>>}

\* Node.textContent
textContent(dom, e) ==
    LET picked == SortedSeq({i \in (e + 1)..(dom.close[e] - 1) : dom.toks[i].k = "text"})
    IN  [j \in 1..Len(picked) |-> dom.toks[picked[j]].name[1]]

\* Element.nextElementSibling: 0 when there is none
nextElementSibling(dom, e) ==
    LET later == {i \in (dom.close[e] + 1)..Len(dom.toks) :
                     /\ dom.toks[i].k = "start"
                     /\ dom.parent[i] = dom.parent[e]}
    IN  IF later = {} THEN 0 ELSE MinOf(later)

\* String.prototype.trim
trim(s) ==
    LET solid == {i \in 1..Len(s) : s[i] \notin WhitespaceChars}
    IN  IF solid = {} THEN << >> ELSE SubSeq(s, MinOf(solid), MaxOf(solid))

\* the cell => note mapping (lines 65-71)
cellNote(dom, cell) ==
    LET imgs == Descendants(dom, cell, "img")
        spans == Descendants(dom, cell, "span")
    IN  [name |-> IF spans = {} THEN << >> ELSE trim(textContent(dom, MinOf(spans))),
         imageUrl |-> IF imgs = {} \/ dom.toks[MinOf(imgs)].src = << >>
                      THEN << >> ELSE dom.toks[MinOf(imgs)].src[1]]

\* extractNotes (lines 55-73), inside the element section
extractNotes(dom, section, headerText) ==
    LET headers == {h \in Descendants(dom, section, "h3") :
                       LET text == textContent(dom, h)
                       IN  \E j \in 1..Len(text) : text[j] = headerText}
    IN  IF headers = {} THEN << >>
        ELSE LET table == nextElementSibling(dom, MinOf(headers))
             IN  IF table = 0 THEN << >>
                 ELSE LET cells == SortedSeq(Descendants(dom, table, "td"))
                          notes == [j \in 1..Len(cells) |-> cellNote(dom, cells[j])]
                      IN  SelectIdx(notes, LAMBDA note, j : note.name # << >>)

\* doc.querySelector('#section-piramide-olfativa') (line 49): 0 when there is none
querySelectorContainer(dom) ==
    LET hits == {i \in 1..Len(dom.toks) :
                    dom.toks[i].k = "start" /\ dom.toks[i].id = << <<ContainerId>> >>}
    IN  IF hits = {} THEN 0 ELSE MinOf(hits)

EmptyPyramid == [top |-> << >>, heart |-> << >>, base |-> << >>]

\* extractPyramid (lines 46-80)
extractPyramid(html) ==
    LET dom == DomOf(HtmlTokens(html))
        section == querySelectorContainer(dom)
    IN  IF section = 0 THEN EmptyPyramid
        ELSE [top |-> extractNotes(dom, section, TitleTop),
              heart |-> extractNotes(dom, section, TitleHeart),
              base |-> extractNotes(dom, section, TitleBase)]

(***************************************************************************)
(* generateUpdatedHtml's pattern (line 125) and String.prototype.replace   *)
(* (line 129), on lexemes.  The pattern's /i flag is not modelled: the     *)
(* sample documents write their tags in lower case.                        *)
(***************************************************************************)
Quotes == {"\"", "'"}

\* the lexemes that end with the characters "id"
EndsWithId == {"id", "data-id"}

\* <section[^>]*id=["']section-piramide-olfativa["'][^>]*> starts at lexeme i
HeadAt(d, i) ==
    /\ i + 1 <= Len(d)
    /\ d[i] = "<"
    /\ d[i + 1] = "section"
    /\ \E k \in (i + 2)..(Len(d) - 4) :
          /\ d[k] \in EndsWithId
          /\ d[k + 1] = "="
          /\ d[k + 2] \in Quotes
          /\ d[k + 3] = ContainerId
          /\ d[k + 4] \in Quotes
          /\ \A j \in (i + 2)..(k - 1) : d[j] # ">"
          /\ \E g \in (k + 5)..Len(d) : d[g] = ">"

\* the ">" that ends the opening tag started at i
HeadEnd(d, i) == MinOf({g \in (i + 2)..Len(d) : d[g] = ">"})

\* <\/section> starts at lexeme c
CloseAt(d, c) ==
    /\ c + 3 <= Len(d)
    /\ d[c] = "<" /\ d[c + 1] = "/" /\ d[c + 2] = "section" /\ d[c + 3] = ">"

\* where the pattern can start
MatchStarts(d) ==
    {i \in 1..Len(d) : HeadAt(d, i) /\ \E c \in (HeadEnd(d, i) + 1)..Len(d) : CloseAt(d, c)}

\* regex.test(originalHtml) (line 128)
regexTest(d) == MatchStarts(d) # {}

\* the leftmost match; [\s\S]*? stops at the first closing tag
MatchStart(d) == MinOf(MatchStarts(d))
MatchEnd(d) ==
    MinOf({c \in (HeadEnd(d, MatchStart(d)) + 1)..Len(d) : CloseAt(d, c)}) + 3

\* GetSubstitution: "$$" stands for "$", "$&" for the match and "$'" for what
\* follows the match; the pattern has no groups, so "$1" stands for itself
DollarsBefore(r, j) ==
    LET stop == {i \in 1..(j - 1) : r[i] # "$"}
    IN  j - 1 - (IF stop = {} THEN 0 ELSE MaxOf(stop))

IsSubstitution(r, j) ==
    /\ j >= 1 /\ j < Len(r)
    /\ r[j] = "$"
    /\ r[j + 1] \in {"$", "&", "'"}
    /\ DollarsBefore(r, j) % 2 = 0

GetSubstitution(r, matched, after) ==
    IF \A j \in 1..Len(r) : ~IsSubstitution(r, j) THEN r
    ELSE ConcatRange(
            [j \in 1..Len(r) |->
                IF IsSubstitution(r, j)
                THEN CASE r[j + 1] = "$" -> <<"$">>
                       [] r[j + 1] = "&" -> matched
                       [] r[j + 1] = "'" -> after
                ELSE IF IsSubstitution(r, j - 1) THEN << >>
                ELSE <<r[j]>>],
            1, Len(r))

\* originalHtml.replace(regex, newPyramidHTML) (line 129), when the pattern matches
stringReplace(d, r) ==
    LET a == MatchStart(d)
        b == MatchEnd(d)
    IN  SubSeq(d, 1, a - 1)
        \o GetSubstitution(r, SubSeq(d, a, b), SubSeq(d, b + 1, Len(d)))
        \o SubSeq(d, b + 1, Len(d))

\* the value generateUpdatedHtml computes (lines 122-130)
MutUpdatedHtmlNoNewline(original, p) ==
    IF regexTest(original)
    THEN stringReplace(original, generatePyramidHTML(p))
    ELSE original \o generatePyramidHTML(p)

updatedHtml(original, p) ==
    IF regexTest(original)
    THEN stringReplace(original, generatePyramidHTML(p))
    ELSE original \o <<"\n">> \o generatePyramidHTML(p)

(***************************************************************************)
(* The component's state and handlers.                                     *)
(***************************************************************************)
AssetBase == "https://topparfum.s3.us-east-1.amazonaws.com/notas/"
AssetExt == ".webp"

\* the template literal of line 164
assetUrl(slug) == <<AssetBase>> \o slug \o <<AssetExt>>

\* the delay of the setTimeout of line 138, in seconds
CopiedDelay == 2

Note(name, imageUrl) == [name |-> name, imageUrl |-> imageUrl]

NoOp == [op |-> "none", level |-> "", index |-> 0, field |-> "", value |-> << >>]
Op(name) == [NoOp EXCEPT !.op = name]

NoProbe == [fn |-> "none", arg |-> << >>, once |-> << >>, twice |-> << >>, step |-> 0]

TotalNotes(p) == Len(p.top) + Len(p.heart) + Len(p.base)

\* the state after the useState calls of lines 16-25
Init ==
    /\ htmlInput = << >>
    /\ pyramid = EmptyPyramid
    /\ originalHtml = << >>
    /\ pyramidLoaded = FALSE
    /\ generatedHtml = << >>
    /\ copied = FALSE
    /\ timers = {}
    /\ sinceCopy = CopiedDelay
    /\ notice = FALSE
    /\ clipboard = << >>
    /\ last = NoOp
    /\ probe = NoProbe

\* the textarea's onChange (line 254); the textarea is rendered while no pyramid is loaded
SetHtmlInput(v) ==
    /\ ~pyramidLoaded
    /\ htmlInput' = v
    /\ notice' = FALSE
    /\ last' = [Op("setHtmlInput") EXCEPT !.value = v]
    /\ UNCHANGED <<pyramid, originalHtml, pyramidLoaded, generatedHtml, copied,
                   timers, sinceCopy, clipboard, probe>>

\* loadHtml (lines 83-93); its button is rendered while no pyramid is loaded
MutLoadHtmlClearsOnReject ==
    /\ ~pyramidLoaded
    /\ IF trim(htmlInput) = << >>
       THEN /\ notice' = TRUE
            /\ last' = Op("loadRejected")
            /\ pyramid' = EmptyPyramid
            /\ UNCHANGED <<htmlInput, originalHtml, pyramidLoaded, generatedHtml>>
       ELSE /\ originalHtml' = htmlInput
            /\ pyramid' = extractPyramid(htmlInput)
            /\ pyramidLoaded' = TRUE
            /\ generatedHtml' = << >>
            /\ notice' = FALSE
            /\ last' = Op("loadHtml")
            /\ UNCHANGED htmlInput
    /\ UNCHANGED <<copied, timers, sinceCopy, clipboard, probe>>

LoadHtml ==
    /\ ~pyramidLoaded
    /\ IF trim(htmlInput) = << >>
       THEN /\ notice' = TRUE
            /\ last' = Op("loadRejected")
            /\ UNCHANGED <<htmlInput, pyramid, originalHtml, pyramidLoaded, generatedHtml>>
       ELSE /\ originalHtml' = htmlInput
            /\ pyramid' = extractPyramid(htmlInput)
            /\ pyramidLoaded' = TRUE
            /\ generatedHtml' = << >>
            /\ notice' = FALSE
            /\ last' = Op("loadHtml")
            /\ UNCHANGED htmlInput
    /\ UNCHANGED <<copied, timers, sinceCopy, clipboard, probe>>

\* the back button's onClick (lines 274-278); rendered while a pyramid is loaded
MutBackResetsPyramid ==
    /\ pyramidLoaded
    /\ pyramidLoaded' = FALSE
    /\ htmlInput' = << >>
    /\ generatedHtml' = << >>
    /\ pyramid' = EmptyPyramid
    /\ notice' = FALSE
    /\ last' = Op("back")
    /\ UNCHANGED <<originalHtml, copied, timers, sinceCopy, clipboard, probe>>

Back ==
    /\ pyramidLoaded
    /\ pyramidLoaded' = FALSE
    /\ htmlInput' = << >>
    /\ generatedHtml' = << >>
    /\ notice' = FALSE
    /\ last' = Op("back")
    /\ UNCHANGED <<pyramid, originalHtml, copied, timers, sinceCopy, clipboard, probe>>

\* addNote (lines 141-146)
AddNote(level) ==
    /\ pyramidLoaded
    /\ TotalNotes(pyramid) < MaxNotes
    /\ pyramid' = [pyramid EXCEPT ![level] = Append(@, Note(<< >>, << >>))]
    /\ notice' = FALSE
    /\ last' = [Op("addNote") EXCEPT !.level = level]
    /\ UNCHANGED <<htmlInput, originalHtml, pyramidLoaded, generatedHtml, copied,
                   timers, sinceCopy, clipboard, probe>>

\* removeNote (lines 148-153)
RemoveNote(level, index) ==
    /\ pyramidLoaded
    /\ index \in 1..Len(pyramid[level])
    /\ pyramid' = [pyramid EXCEPT ![level] = SelectIdx(@, LAMBDA note, i : i # index)]
    /\ notice' = FALSE
    /\ last' = [Op("removeNote") EXCEPT !.level = level, !.index = index]
    /\ UNCHANGED <<htmlInput, originalHtml, pyramidLoaded, generatedHtml, copied,
                   timers, sinceCopy, clipboard, probe>>

\* the note updateNote puts at the edited index (lines 160-167)
MutUpdatedNoteKeepsUrl(note, field, value) ==
    IF field = "name" THEN [note EXCEPT !.name = value]
    ELSE [note EXCEPT !.imageUrl = value]

updatedNote(note, field, value) ==
    IF field = "name"
    THEN Note(value, assetUrl(normalizeNoteName(value)))
    ELSE [note EXCEPT !.imageUrl = value]

\* updateNote (lines 155-172), called by the inputs' onChange (lines 195, 202)
UpdateNote(level, index, field, value) ==
    /\ pyramidLoaded
    /\ index \in 1..Len(pyramid[level])
    /\ pyramid' = [pyramid EXCEPT ![level] =
                      [i \in 1..Len(@) |->
                          IF i = index THEN updatedNote(@[i], field, value) ELSE @[i]]]
    /\ notice' = FALSE
    /\ last' = [op |-> "updateNote", level |-> level, index |-> index,
                field |-> field, value |-> value]
    /\ UNCHANGED <<htmlInput, originalHtml, pyramidLoaded, generatedHtml, copied,
                   timers, sinceCopy, clipboard, probe>>

\* generateUpdatedHtml (lines 121-133)
GenerateUpdatedHtml ==
    /\ pyramidLoaded
    /\ generatedHtml' = updatedHtml(originalHtml, pyramid)
    /\ notice' = FALSE
    /\ last' = Op("generateUpdatedHtml")
    /\ UNCHANGED <<htmlInput, pyramid, originalHtml, pyramidLoaded, copied,
                   timers, sinceCopy, clipboard, probe>>

\* copyToClipboard (lines 135-139); its button is rendered with the generated HTML
\* (line 344).  Two timers with the same time left act as one: the callback only
\* clears the flag.
CopyToClipboard ==
    /\ pyramidLoaded
    /\ generatedHtml # << >>
    /\ clipboard' = generatedHtml
    /\ copied' = TRUE
    /\ timers' = timers \cup {CopiedDelay}
    /\ sinceCopy' = 0
    /\ notice' = FALSE
    /\ last' = Op("copyToClipboard")
    /\ UNCHANGED <<htmlInput, pyramid, originalHtml, pyramidLoaded, generatedHtml, probe>>

\* the callback of the setTimeout of line 138, once its delay has run out
CopiedTimeout ==
    /\ 0 \in timers
    /\ copied' = FALSE
    /\ timers' = timers \ {0}
    /\ notice' = FALSE
    /\ last' = Op("copiedTimeout")
    /\ UNCHANGED <<htmlInput, pyramid, originalHtml, pyramidLoaded, generatedHtml,
                   sinceCopy, clipboard, probe>>

\* one second passes; a callback that is due runs first.  Time is followed only
\* while a timer is pending or the latest copy is younger than the delay
\* (sinceCopy starts at the delay: no copy is younger than it).
Tick ==
    /\ 0 \notin timers
    /\ timers # {} \/ sinceCopy < CopiedDelay
    /\ timers' = {t - 1 : t \in timers}
    /\ sinceCopy' = IF sinceCopy >= CopiedDelay THEN sinceCopy ELSE sinceCopy + 1
    /\ notice' = FALSE
    /\ last' = Op("tick")
    /\ UNCHANGED <<htmlInput, pyramid, originalHtml, pyramidLoaded, generatedHtml,
                   copied, clipboard, probe>>

\* extractPyramid(generatePyramidHTML()) applied to the pyramid being edited
RoundTrip ==
    /\ pyramidLoaded
    /\ probe' = [fn |-> "extractPyramid", arg |-> pyramid,
                 once |-> extractPyramid(generatePyramidHTML(pyramid)),
                 twice |-> << >>, step |-> 1]
    /\ UNCHANGED <<htmlInput, pyramid, originalHtml, pyramidLoaded, generatedHtml,
                   copied, timers, sinceCopy, notice, clipboard, last>>

\* normalizeNoteName applied to the probe's argument, and then to its own result
NormalizeOnce ==
    /\ probe.fn = "normalizeNoteName" /\ probe.step = 0
    /\ probe' = [probe EXCEPT !.once = normalizeNoteName(probe.arg), !.step = 1]
    /\ UNCHANGED <<htmlInput, pyramid, originalHtml, pyramidLoaded, generatedHtml,
                   copied, timers, sinceCopy, notice, clipboard, last>>

NormalizeTwice ==
    /\ probe.fn = "normalizeNoteName" /\ probe.step = 1
    /\ probe' = [probe EXCEPT !.twice = normalizeNoteName(probe.once), !.step = 2]
    /\ UNCHANGED <<htmlInput, pyramid, originalHtml, pyramidLoaded, generatedHtml,
                   copied, timers, sinceCopy, notice, clipboard, last>>

(***************************************************************************)
(* Sample documents and the strings typed into the fields.                 *)
(***************************************************************************)
DocPrefix == <<"<", "p", ">", "Perfume", "<", "/", "p", ">", "\n">>
DocSuffix == <<"\n", "<", "p", ">", "Fim", "<", "/", "p", ">">>

SampleNote == Note(<<"a">>, <<"u">>)
SamplePyramid == [top |-> <<SampleNote>>, heart |-> << >>, base |-> << >>]

\* a tier in plain markup: a heading, then a table of one cell
PlainTier ==
    <<"<", "h3", ">", TitleTop, "<", "/", "h3", ">", "<", "table", ">", "<", "tr", ">">>
    \o <<"<", "td", ">", "<", "img", " ", "src", "=", "\"", "u", "\"", ">">>
    \o <<"<", "span", ">", "a", "<", "/", "span", ">", "<", "/", "td", ">">>
    \o <<"<", "/", "tr", ">", "<", "/", "table", ">">>

SectionClose == <<"<", "/", "section", ">">>

\* whitespace only
DocBlank == <<" ", "\n">>
\* no container at all
DocPlain == DocPrefix \o DocSuffix
\* the editor's own output between other content
DocSection == DocPrefix \o generatePyramidHTML(SamplePyramid) \o DocSuffix
\* two tiers filled, the third empty
DocTwoTiers ==
    generatePyramidHTML([top |-> <<SampleNote>>, heart |-> <<SampleNote>>, base |-> << >>])
\* single quotes and another attribute before the id
DocSingleQuoted ==
    DocPrefix
    \o <<"<", "section", " ", "class", "=", "'", "pyr", "'", " ", "id", "=", "'", ContainerId, "'", ">">>
    \o PlainTier \o SectionClose \o DocSuffix
\* the id attribute without quotes
DocUnquoted ==
    DocPrefix \o <<"<", "section", " ", "id", "=", ContainerId, ">">>
    \o PlainTier \o SectionClose \o DocSuffix
\* the id on another element
DocDiv ==
    DocPrefix \o <<"<", "div", " ", "id", "=", "\"", ContainerId, "\"", ">">>
    \o PlainTier \o <<"<", "/", "div", ">">> \o DocSuffix
\* a section that carries the identifier in another attribute
DocDataId ==
    DocPrefix \o <<"<", "section", " ", "data-id", "=", "\"", ContainerId, "\"", ">">>
    \o PlainTier \o SectionClose \o DocSuffix
\* a section nested in the container
DocNested ==
    DocPrefix \o <<"<", "section", " ", "id", "=", "\"", ContainerId, "\"", ">">>
    \o <<"<", "section", ">", "Intro">> \o SectionClose
    \o PlainTier \o SectionClose \o DocSuffix

EditDocs == {DocBlank, DocSection}
SpliceDocs == {DocBlank, DocPlain, DocSection, DocSingleQuoted, DocUnquoted,
               DocDiv, DocDataId, DocNested}

NameRosa == <<"R", "o", "s", "a">>
UrlTyped == <<"x">>
EditNames == {NameRosa}
EditUrls == {UrlTyped}

SpliceNames == {<<"b">>, <<"$", "&">>, <<"$", "$">>, <<"$", "'">>, <<"$", "1">>}

RoundTripNames == {<<"b">>, <<" ", "b">>, <<"b", "<", "a">>}

LavandaFrancesa ==
    <<"L", "a", "v", "a", "n", "d", "a", " ", "F", "r", "a", "n", "c", "e", "s", "a">>
AmbarCedro == <<"Â", "m", "b", "a", "r", " ", "&", " ", "C", "e", "d", "r", "o">>

NormAlphabet == {"A", "z", "Â", "é", "ç", "7", " ", "\t", "-", "&", "_"}
NormInputs == StringsUpTo(NormAlphabet, MaxLen) \cup {LavandaFrancesa, AmbarCedro}

(***************************************************************************)
(* Specifications.  The whole component is the disjunction of all the      *)
(* handlers; each specification below runs the handlers one part of the    *)
(* behaviour depends on, with the inputs that part needs.                  *)
(***************************************************************************)
\* an editing session: load, edit the notes, go back
Next ==
    \/ \E v \in EditDocs : SetHtmlInput(v)
    \/ LoadHtml
    \/ Back
    \/ \E level \in Levels : AddNote(level)
    \/ \E level \in Levels, index \in 1..MaxNotes + 1 : RemoveNote(level, index)
    \/ \E level \in Levels, index \in 1..MaxNotes + 1, v \in EditNames :
          UpdateNote(level, index, "name", v)
    \/ \E level \in Levels, index \in 1..MaxNotes + 1, v \in EditUrls :
          UpdateNote(level, index, "imageUrl", v)

Spec == Init /\ [][Next]_vars

\* generating and copying: load, generate, copy, the timers
NextCopy ==
    \/ \E v \in EditDocs : SetHtmlInput(v)
    \/ LoadHtml
    \/ Back
    \/ GenerateUpdatedHtml
    \/ CopyToClipboard
    \/ CopiedTimeout
    \/ Tick

SpecCopy == Init /\ [][NextCopy]_vars

\* splicing: load one of the sample documents, rename its note, generate
NextSplice ==
    \/ \E v \in SpliceDocs : SetHtmlInput(v)
    \/ LoadHtml
    \/ Back
    \/ \E level \in Levels, index \in 1..MaxNotes + 1, v \in SpliceNames :
          UpdateNote(level, index, "name", v)
    \/ GenerateUpdatedHtml

SpecSplice == Init /\ [][NextSplice]_vars

\* serialize and extract: edit the notes of a loaded pyramid, then apply the round trip
NextRoundTrip ==
    \/ probe = NoProbe /\ SetHtmlInput(DocTwoTiers)
    \/ probe = NoProbe /\ LoadHtml
    \/ probe = NoProbe /\ \E level \in Levels : AddNote(level)
    \/ probe = NoProbe /\ \E level \in Levels, index \in 1..MaxNotes + 1 : RemoveNote(level, index)
    \/ probe = NoProbe /\ \E level \in Levels, index \in 1..MaxNotes + 1, v \in RoundTripNames :
          UpdateNote(level, index, "name", v)
    \/ probe = NoProbe /\ RoundTrip

SpecRoundTrip == Init /\ [][NextRoundTrip]_vars

\* the normalizer on its own
InitNorm ==
    /\ htmlInput = << >>
    /\ pyramid = EmptyPyramid
    /\ originalHtml = << >>
    /\ pyramidLoaded = FALSE
    /\ generatedHtml = << >>
    /\ copied = FALSE
    /\ timers = {}
    /\ sinceCopy = CopiedDelay
    /\ notice = FALSE
    /\ clipboard = << >>
    /\ last = NoOp
    /\ \E x \in NormInputs : probe = [NoProbe EXCEPT !.fn = "normalizeNoteName", !.arg = x]

NextNorm == NormalizeOnce \/ NormalizeTwice

SpecNorm == InitNorm /\ [][NextNorm]_vars

(***************************************************************************)
(* Properties.                                                             *)
(***************************************************************************)
AllNotes(p) ==
    {p.top[i] : i \in 1..Len(p.top)} \cup {p.heart[i] : i \in 1..Len(p.heart)}
    \cup {p.base[i] : i \in 1..Len(p.base)}

TiersNonEmpty(p) == p.top # << >> /\ p.heart # << >> /\ p.base # << >>

\* the document has an element carrying the container identifier
ContainerFound(d) == querySelectorContainer(DomOf(HtmlTokens(d))) # 0

\* how many elements of the document carry the container identifier
CountContainers(d) ==
    LET toks == HtmlTokens(d)
    IN  Cardinality({i \in 1..Len(toks) :
                        toks[i].k = "start" /\ toks[i].id = << <<ContainerId>> >>})

\* exactly one section element, opened once and closed once, carrying the identifier
WellFormedSingle(d) ==
    /\ regexTest(d)
    /\ ContainerFound(d)
    /\ Cardinality({i \in 1..(Len(d) - 1) : d[i] = "<" /\ d[i + 1] = "section"}) = 1
    /\ Cardinality({c \in 1..Len(d) : CloseAt(d, c)}) = 1

Generated == last.op = "generateUpdatedHtml"

\* C1: for a document with exactly one well-formed container, generateUpdatedHtml
\* yields the text before the container, the block generatePyramidHTML returns,
\* verbatim, and the text after the container
C1_SpliceContainment ==
    (Generated /\ WellFormedSingle(originalHtml)) =>
        generatedHtml =
            SubSeq(originalHtml, 1, MatchStart(originalHtml) - 1)
            \o generatePyramidHTML(pyramid)
            \o SubSeq(originalHtml, MatchEnd(originalHtml) + 1, Len(originalHtml))

C10_ExtractorSplicerAgree ==
    Generated =>
        /\ regexTest(originalHtml) <=> ContainerFound(originalHtml)
        /\ CountContainers(originalHtml) <= 1 => CountContainers(generatedHtml) <= 1

\* a name that comes back as it is: not empty, no whitespace at either end, none of < & "
CleanName(n) ==
    /\ n # << >>
    /\ n[1] \notin WhitespaceChars /\ n[Len(n)] \notin WhitespaceChars
    /\ \A i \in 1..Len(n) : n[i] \notin {"<", "&", "\""}

\* an image URL that comes back as it is: none of " &, no carriage return
CleanUrl(u) == \A i \in 1..Len(u) : u[i] \notin {"\"", "&", "\r"}

C3_BackResetsPyramid == last.op = "back" => pyramid = EmptyPyramid

\* C3, amended: the back action clears pyramidLoaded, htmlInput and generatedHtml and
\* leaves the pyramid and the document snapshot as they were
C3_BackKeepsPyramid ==
    [][last'.op = "back" =>
          /\ pyramid' = pyramid
          /\ originalHtml' = originalHtml
          /\ pyramidLoaded' = FALSE
          /\ htmlInput' = << >>
          /\ generatedHtml' = << >>]_vars

C3_Witness ==
    /\ last.op = "back"
    /\ pyramid.top # << >>
    /\ \E note \in AllNotes(pyramid) : note.name = NameRosa

\* C4: the copied indicator stays set until the delay has run out since the most
\* recent copy
C4_CopiedUntilDelay == sinceCopy < CopiedDelay => copied

\* C5: updateNote(level, i, 'name', v) sets note i of the tier to the name v and the
\* URL asset path + normalizeNoteName(v) + '.webp', and changes nothing else of the pyramid
C5_NameEditDerivesUrl ==
    [][(last'.op = "updateNote" /\ last'.field = "name") =>
          /\ last'.index \in 1..Len(pyramid[last'.level])
          /\ pyramid' = [pyramid EXCEPT ![last'.level][last'.index] =
                            Note(last'.value,
                                 <<AssetBase>> \o normalizeNoteName(last'.value) \o <<AssetExt>>)]
          /\ last'.value = NameRosa =>
                pyramid'[last'.level][last'.index].imageUrl =
                    <<AssetBase, "r", "o", "s", "a", AssetExt>>]_vars

C5_Witness ==
    /\ last.op = "updateNote" /\ last.field = "name"
    /\ Len(pyramid[last.level]) >= 2
    /\ pyramid[last.level][last.index] =
          Note(NameRosa, <<AssetBase, "r", "o", "s", "a", AssetExt>>)
    /\ \E i \in 1..Len(pyramid[last.level]) :
          i # last.index /\ pyramid[last.level][i].imageUrl = UrlTyped

LavandaSlug ==
    <<"l", "a", "v", "a", "n", "d", "a", "-", "f", "r", "a", "n", "c", "e", "s", "a">>

\* C6 as stated: "Lavanda Francesa" gives "lavanda-francesa" and "Âmbar & Cedro"
\* gives "ambar-cedro"
C6_SlugScenarios ==
    probe.step >= 1 =>
        /\ probe.arg = LavandaFrancesa => probe.once = LavandaSlug
        /\ probe.arg = AmbarCedro =>
              probe.once = <<"a", "m", "b", "a", "r", "-", "c", "e", "d", "r", "o">>

\* C6, amended: "Lavanda Francesa" gives "lavanda-francesa", whose URL ends with
\* "/lavanda-francesa.webp", and "Âmbar & Cedro" gives "ambar--cedro": each of the two
\* spaces around the ampersand becomes a hyphen of its own
C6_SlugScenariosAmended ==
    probe.step >= 1 =>
        /\ probe.arg = LavandaFrancesa =>
              /\ probe.once = LavandaSlug
              /\ assetUrl(probe.once) = <<AssetBase>> \o LavandaSlug \o <<AssetExt>>
        /\ probe.arg = AmbarCedro =>
              probe.once = <<"a", "m", "b", "a", "r", "-", "-", "c", "e", "d", "r", "o">>

C6_Witness == probe.step >= 1 /\ probe.arg = AmbarCedro /\ Len(probe.once) = 12

\* C7: normalizeNoteName(x) holds only a-z, 0-9 and "-", and normalizing it again
\* changes nothing
C7_NormalizerIdempotent ==
    /\ probe.step >= 1 =>
          \A i \in 1..Len(probe.once) : probe.once[i] \in AsciiLower \cup Digits \cup {"-"}
    /\ probe.step = 2 => probe.twice = probe.once

C7_Witness ==
    /\ probe.step = 2
    /\ probe.arg = <<"Â", "\t", "&">>
    /\ probe.twice = <<"a", "-">>

\* C9: loadHtml on an input that is empty after trimming raises the notice and leaves
\* pyramid, originalHtml, pyramidLoaded, generatedHtml and htmlInput as they were
C9_RejectedLoadChangesNothing ==
    [][(last'.op \in {"loadHtml", "loadRejected"} /\ trim(htmlInput) = << >>) =>
          /\ notice'
          /\ last'.op = "loadRejected"
          /\ UNCHANGED <<pyramid, originalHtml, pyramidLoaded, generatedHtml, htmlInput>>]_vars

C9_Witness ==
    /\ last.op = "loadRejected"
    /\ notice
    /\ htmlInput = DocBlank
    /\ pyramid # EmptyPyramid
    /\ originalHtml # << >>

====
